---- MODULE Spec2Model ----
(***************************************************************************)
(* Model of src/file_manager.py: the constructor's ensure_directories and  *)
(* FileManager.compare_and_move_files, the anchor-and-scan triage pass     *)
(* over one directory, with the helpers it calls (compare_filenames,       *)
(* get_token_set, compare_token_sets, move_file).                          *)
(*                                                                         *)
(* Specifications                                                          *)
(*  - Spec: construction and one call of the pass; LiveSpec adds fairness; *)
(*    SpecTwice adds a second call of the pass.                            *)
(*  - BandSpec: the same program over directories whose pairs of files sit *)
(*    exactly on the cutoffs of lines 127, 132, 142, 157 and 166.          *)
(*  - TokenSpec: one call of compare_token_sets on any two Counters.       *)
(*                                                                         *)
(* Conventions                                                             *)
(*  - A file name is a string; Chars gives its characters, on which the    *)
(*    string operations of the code (endswith, SequenceMatcher) work.      *)
(*  - A file's content is the run-length form of its token stream: a       *)
(*    sequence of <<token, count>> runs (whitespace is what separates the  *)
(*    tokens; a whitespace-only file has no run but a positive size).      *)
(*  - Indices are 1-based: the code's i, j are the model's i-1, j-1.       *)
(*  - A float the code compares is kept as an exact fraction <<num, den>>  *)
(*    and compared by cross-multiplication.  With the operand sizes of     *)
(*    this model the float quotient and the exact one compare alike.       *)
(*  - Nothing else touches the directory during a call: os.path.getsize    *)
(*    and read_file_content succeed on a file that is in place.  What can  *)
(*    fail is os.makedirs, os.scandir and shutil.move (either outcome is   *)
(*    possible at every call) and the two divisions of lines 81 and 142.   *)
(***************************************************************************)
EXTENDS Integers, Sequences, FiniteSets, TLC

\* ------------------------------------------------------------------ bounds

\* Largest number of regular files in the scanned directory.
MaxFiles == 3

\* Largest count of one token in an argument of a lone compare_token_sets.
MaxCount == 3

\* ------------------------------------------------------- program constants

\* FileManager.__init__ defaults (0.5, 0.85, 0.3) as fractions.
size_difference_threshold == <<5, 10>>
similarity_ratio_threshold == <<85, 100>>
similarity_skip_threshold == <<3, 10>>
\* The literals of lines 127 and 132 (0.7, 0.3).
NameDupCutoff == <<7, 10>>
NameSkipCutoff == <<3, 10>>
\* The suffix tested by name.endswith('.zip').
ZipSuffix == <<".", "z", "i", "p">>

\* p < q, p <= q for fractions with positive denominators.
FracLess(p, q) == p[1] * q[2] < q[1] * p[2]
FracLeq(p, q) == p[1] * q[2] <= q[1] * p[2]

\* ------------------------------------------------------------ file universe

\* The file names a directory may hold, each with its characters.
Chars ==
    "x.txt" :> <<"x", ".", "t", "x", "t">> @@
    "y.txt" :> <<"y", ".", "t", "x", "t">> @@
    "x.md" :> <<"x", ".", "m", "d">> @@
    "xy.c" :> <<"x", "y", ".", "c">> @@
    "a.zip" :> <<"a", ".", "z", "i", "p">> @@
    "b.zip" :> <<"b", ".", "z", "i", "p">> @@
    "report.txt" :> <<"r", "e", "p", "o", "r", "t", ".", "t", "x", "t">> @@
    "re-port.md" :> <<"r", "e", "-", "p", "o", "r", "t", ".", "m", "d">> @@
    "rework.doc" :> <<"r", "e", "w", "o", "r", "k", ".", "d", "o", "c">> @@
    "budget.doc" :> <<"b", "u", "d", "g", "e", "t", ".", "d", "o", "c">>

AllNames == DOMAIN Chars

\* The names of the directories that probe the cutoffs of lines 127 and 132:
\* against report.txt the similarity of re-port.md is 14/20, of rework.doc
\* 10/20 and of budget.doc 6/20.
BandNames == {"report.txt", "re-port.md", "rework.doc", "budget.doc"}

\* str.endswith
EndsWith(s, suf) ==
    /\ Len(s) >= Len(suf)
    /\ SubSeq(s, Len(s) - Len(suf) + 1, Len(s)) = suf

\* file.name.endswith('.zip') of lines 99 and 118
IsZip(n) == EndsWith(Chars[n], ZipSuffix)

PlainNames == { n \in AllNames \ BandNames : ~IsZip(n) }
ZipNames == { n \in AllNames : IsZip(n) }

\* (size in bytes, content) of the plain files a directory may hold.
PlainKinds ==
    { [size |-> 2000, content |-> << <<"a", 500>> >>],
      [size |-> 2000, content |-> << <<"b", 500>> >>],
      [size |-> 4000, content |-> << <<"a", 500>>, <<"b", 50>> >>],
      [size |-> 5000, content |-> << <<"a", 500>>, <<"b", 50>> >>],
      [size |-> 2000, content |-> << <<"a", 250>> >>],
      [size |-> 100, content |-> << >>],
      [size |-> 0, content |-> << >>] }

\* An archive's bytes are never tokenised by the pass.
ZipKinds == { [size |-> 300, content |-> << >>] }

MkEntry(n, k) == [name |-> n, size |-> k.size, content |-> k.content]

FileSpace ==
    { MkEntry(n, k) : n \in PlainNames, k \in PlainKinds }
    \cup { MkEntry(n, k) : n \in ZipNames, k \in ZipKinds }

\* The value of an emptied slot (Python's None); no file has an empty name.
None == [name |-> "", size |-> 0, content |-> << >>]

\* The files of the directories that probe the thresholds: against 500
\* tokens "a" in 2000 bytes, 425 tokens give a score of 0.85, 150 tokens in
\* 1000 bytes a score of 0.3 at a size gap of 0.5; 550 tokens in 4000 bytes
\* are a larger duplicate at a size gap of 0.5; 1000 bytes of whitespace and
\* an empty file have no token.
BandKinds ==
    { [size |-> 2000, content |-> << <<"a", 500>> >>],
      [size |-> 2000, content |-> << <<"a", 425>> >>],
      [size |-> 1000, content |-> << <<"a", 150>> >>],
      [size |-> 4000, content |-> << <<"a", 500>>, <<"b", 50>> >>],
      [size |-> 1000, content |-> << >>],
      [size |-> 0, content |-> << >>] }

BandFileSpace ==
    { MkEntry(n, k) : n \in BandNames, k \in BandKinds }
    \cup { MkEntry("a.zip", k) : k \in ZipKinds }

\* Directory listings: up to MaxFiles entries with pairwise distinct names.
ListingsOf(space) ==
    UNION { { s \in [1..n -> space] :
                \A p, q \in 1..n : p # q => s[p].name # s[q].name } :
            n \in 0..MaxFiles }

Listings == ListingsOf(FileSpace)
BandListings == ListingsOf(BandFileSpace)

\* ------------------------------------------------------------ pure helpers

\* Length of the common run of a[p..ahi] and b[q..bhi] starting at (p, q).
RECURSIVE CommonRun(_, _, _, _, _, _)
CommonRun(a, b, p, q, ahi, bhi) ==
    IF p > ahi \/ q > bhi THEN 0
    ELSE IF a[p] # b[q] THEN 0
    ELSE 1 + CommonRun(a, b, p + 1, q + 1, ahi, bhi)

\* difflib.SequenceMatcher.find_longest_match without junk: the longest block
\* of a[alo..ahi], b[blo..bhi]; of the longest, the one starting earliest in
\* a, and of those the one starting earliest in b.
find_longest_match(a, b, alo, ahi, blo, bhi) ==
    LET len(p, q) == CommonRun(a, b, p, q, ahi, bhi)
        pairs == (alo..ahi) \X (blo..bhi)
        best == CHOOSE pq \in pairs :
                  \A rs \in pairs :
                     \/ len(pq[1], pq[2]) > len(rs[1], rs[2])
                     \/ /\ len(pq[1], pq[2]) = len(rs[1], rs[2])
                        /\ \/ pq[1] < rs[1]
                           \/ pq[1] = rs[1] /\ pq[2] <= rs[2]
    IN  [a |-> best[1], b |-> best[2], size |-> len(best[1], best[2])]

\* Sum of the sizes of SequenceMatcher.get_matching_blocks(): the longest
\* block, then the same left and right of it.
RECURSIVE MatchCount(_, _, _, _, _, _)
MatchCount(a, b, alo, ahi, blo, bhi) ==
    IF alo > ahi \/ blo > bhi THEN 0
    ELSE LET m == find_longest_match(a, b, alo, ahi, blo, bhi)
         IN  IF m.size = 0 THEN 0
             ELSE m.size
                  + MatchCount(a, b, alo, m.a - 1, blo, m.b - 1)
                  + MatchCount(a, b, m.a + m.size, ahi, m.b + m.size, bhi)

\* Mutant: the ratio without its factor 2 (matches / length).
compare_filenames_Single(name1, name2) ==
    LET a == Chars[name1]
        b == Chars[name2]
        length == Len(a) + Len(b)
    IN  IF length = 0 THEN <<1, 1>>
        ELSE <<MatchCount(a, b, 1, Len(a), 1, Len(b)), length>>

\* SequenceMatcher(None, name1, name2).ratio() = 2.0 * matches / length,
\* and 1.0 when both names are empty.
compare_filenames(name1, name2) ==
    LET a == Chars[name1]
        b == Chars[name2]
        length == Len(a) + Len(b)
    IN  IF length = 0 THEN <<1, 1>>
        ELSE <<2 * MatchCount(a, b, 1, Len(a), 1, Len(b)), length>>

\* The tokens that can occur in a file.
Tokens == {"a", "b"}

\* get_token_set(content) = Counter(content.split()): occurrences per token.
RECURSIVE CountToken(_, _)
CountToken(content, t) ==
    IF content = << >> THEN 0
    ELSE (IF Head(content)[1] = t THEN Head(content)[2] ELSE 0)
         + CountToken(Tail(content), t)

get_token_set(content) == [t \in Tokens |-> CountToken(content, t)]

Min(m, n) == IF m <= n THEN m ELSE n
Max(m, n) == IF m >= n THEN m ELSE n

RECURSIVE SumOver(_, _)
SumOver(S, f) ==
    IF S = {} THEN 0
    ELSE LET t == CHOOSE u \in S : TRUE
         IN  f[t] + SumOver(S \ {t}, f)

\* sum((set1 & set2).values()) and sum((set1 | set2).values())
common_tokens(set1, set2) ==
    SumOver(Tokens, [t \in Tokens |-> Min(set1[t], set2[t])])
total_tokens(set1, set2) ==
    SumOver(Tokens, [t \in Tokens |-> Max(set1[t], set2[t])])

\* compare_token_sets: common / total; the division raises when total = 0.
compare_token_sets(set1, set2) ==
    <<common_tokens(set1, set2), total_tokens(set1, set2)>>
TokenDivisionRaises(set1, set2) == total_tokens(set1, set2) = 0

\* abs(file1_size - file2_size) / max(file1_size, file2_size) of line 142.
SizeGap(s1, s2) == <<Max(s1, s2) - Min(s1, s2), Max(s1, s2)>>
SizeDivisionRaises(s1, s2) == Max(s1, s2) = 0

\* ------------------------------------------------------------------ state

VARIABLES
    listing,          \* what os.scandir yields for this run, in its order
    here,             \* names of the files in documents_folder
    zipArea,          \* names of the files in documents_folder/Zip
    dupArea,          \* names of the files in documents_folder/Duplicated
    files,            \* the working set: entries, None where emptied
    i, j,             \* the loop indices (1-based)
    file1,            \* the local file1 (the anchor)
    file1_size,
    file1_token_set,
    skip_file1,
    pc,               \* "makedirs_dup", "makedirs_zip", "scan", "outer",
                      \* "inner", "after", "done", "error"; and
                      \* "compare_token_sets" for a lone call of it
    err,              \* the exception that left the constructor or the call
    run,              \* 1 for the first call, 2 for a second call
    log,              \* the calls made so far in this run, in order
    ensured,          \* the folders os.makedirs has returned for
    set1, set2,       \* the arguments of a lone call of compare_token_sets
    result            \* what that call gave

vars == <<listing, here, zipArea, dupArea, files, i, j, file1, file1_size,
          file1_token_set, skip_file1, pc, err, run, log, ensured,
          set1, set2, result>>

ctorVars == <<ensured>>
probeVars == <<set1, set2, result>>

NoTokens == [t \in Tokens |-> 0]

NamesOf(s) == { s[k].name : k \in 1..Len(s) }

\* One logged call: op on file f (and g, the other file of a comparison).
Call(op, f, g, ok) == [op |-> op, f |-> f, g |-> g, ok |-> ok]
GetSize(e) == Call("getsize", e.name, "", TRUE)
ReadFile1(e) == Call("read_file1", e.name, "", TRUE)
ReadFile2(e) == Call("read_file2", e.name, "", TRUE)
CmpNames(e1, e2) == Call("compare_filenames", e1.name, e2.name, TRUE)
CmpTokens(e1, e2) == Call("compare_token_sets", e1.name, e2.name, TRUE)
MoveZip(e, ok) == Call("move_zip", e.name, "", ok)
MoveDup(e, ok) == Call("move_dup", e.name, "", ok)

\* The folders ensure_directories makes, in the order of lines 50-51.
Folders == {"Duplicated", "Zip"}

\* The result of the lone call before it is made.
Unset == [state |-> "unset", value |-> <<0, 1>>]

\* What holds of every variable the constructor does not touch: the directory
\* holds any listing of the file universe, Zip and Duplicated hold nothing.
InitPass(dirs) ==
    /\ listing \in dirs
    /\ here = NamesOf(listing)
    /\ zipArea = {}
    /\ dupArea = {}
    /\ files = << >>
    /\ i = 1
    /\ j = 1
    /\ file1 = None
    /\ file1_size = 0
    /\ file1_token_set = NoTokens
    /\ skip_file1 = FALSE
    /\ err = "none"
    /\ run = 1
    /\ log = << >>

\* FileManager.__init__ has stored its arguments and the two folder paths
\* (lines 17-23) and is about to call ensure_directories (line 24).
InitCtor ==
    /\ ensured = {}
    /\ pc = "makedirs_dup"

\* No lone call of compare_token_sets is made.
InitProbe ==
    /\ set1 = NoTokens
    /\ set2 = NoTokens
    /\ result = Unset

Init == InitPass(Listings) /\ InitCtor /\ InitProbe

\* The same program over the directories that probe the cutoffs.
BandInit == InitPass(BandListings) /\ InitCtor /\ InitProbe

\* ------------------------------------------------------- the code's tests

\* Mutant: the name cutoff is 0.9.
IsNameDuplicate_High(fsim) == FracLeq(<<9, 10>>, fsim)

\* line 127: filename_similarity >= 0.7
IsNameDuplicate(fsim) == FracLeq(NameDupCutoff, fsim)
\* Mutant: the low cutoff is exclusive (< for <=).
IsNameDissimilar_Strict(fsim) == FracLess(fsim, NameSkipCutoff)
\* line 132: filename_similarity <= 0.3
IsNameDissimilar(fsim) == FracLeq(fsim, NameSkipCutoff)
\* Mutant: the size test is turned round (< for >).
SizesDiffer_Inverted(s1, s2) == FracLess(SizeGap(s1, s2), size_difference_threshold)

\* line 142: abs(s1 - s2) / max(s1, s2) > size_difference_threshold
SizesDiffer(s1, s2) == FracLess(size_difference_threshold, SizeGap(s1, s2))
\* line 157: similarity < similarity_skip_threshold
IsLowSimilarity(sim) == FracLess(sim, similarity_skip_threshold)
\* Mutant: the duplicate test reads the skip threshold.
IsDuplicate_SkipThreshold(sim) == FracLess(similarity_skip_threshold, sim)

\* line 166: similarity > similarity_ratio_threshold
IsDuplicate(sim) == FracLess(similarity_ratio_threshold, sim)
\* Mutant: the tie goes against the anchor (<= for <).
AnchorIsSmaller_OrEqual(s1, s2) == s1 <= s2

\* line 167: file1_size < file2_size
AnchorIsSmaller(s1, s2) == s1 < s2

\* -------------------------------------------------------------- move_file

\* shutil.move(src, dest_folder) went through: the file changes folder.
Moved(n, dest) ==
    /\ here' = here \ {n}
    /\ zipArea' = IF dest = "zip" THEN zipArea \cup {n} ELSE zipArea
    /\ dupArea' = IF dest = "dup" THEN dupArea \cup {n} ELSE dupArea

\* An exception leaves the call: FileManagerError (raised by move_file or
\* ensure_directories, or the wrapped OSError of line 182), or one that
\* except OSError lets through.
Raise(kind) ==
    /\ pc' = "error"
    /\ err' = kind

dirVars == <<here, zipArea, dupArea>>
anchorVars == <<file1, file1_size, file1_token_set>>
passVars == <<listing, dirVars, files, i, j, anchorVars, skip_file1, run, log>>

\* ----------------------------------------------------- ensure_directories

\* Mutant: the OSError of makedirs is swallowed and the pass goes ahead.
EnsureFolder_Swallowed(at, folder, then, ok) ==
    /\ pc = at
    /\ ensured' = IF ok THEN ensured \cup {folder} ELSE ensured
    /\ pc' = then
    /\ UNCHANGED <<passVars, probeVars, err>>

\* os.makedirs(folder, exist_ok=True) of line 50 or 51: it returns, or it
\* raises OSError, which lines 53-54 turn into FileManagerError; that leaves
\* __init__, and line 194 is reached without line 193.
EnsureFolder(at, folder, then, ok) ==
    /\ pc = at
    /\ IF ok
       THEN /\ ensured' = ensured \cup {folder}
            /\ pc' = then
            /\ UNCHANGED err
       ELSE /\ Raise("FileManagerError")
            /\ UNCHANGED ensured
    /\ UNCHANGED <<passVars, probeVars>>

\* line 50
EnsureDuplicated(ok) == EnsureFolder("makedirs_dup", "Duplicated", "makedirs_zip", ok)
\* line 51; the constructor returns and line 193 calls the pass.
EnsureZip(ok) == EnsureFolder("makedirs_zip", "Zip", "scan", ok)

\* --------------------------------------------------------- the outer loop

\* line 88: the listing becomes the working set; line 90: i = 0.
ListFiles ==
    /\ pc = "scan"
    /\ files' = listing
    /\ i' = 1
    /\ pc' = "outer"
    /\ UNCHANGED <<ctorVars, probeVars, listing, dirVars, j, anchorVars, skip_file1, err, run, log>>

\* line 88 raises OSError; lines 181-182 wrap it.
ListFilesFails ==
    /\ pc = "scan"
    /\ Raise("FileManagerError")
    /\ UNCHANGED <<ctorVars, probeVars, listing, dirVars, files, i, j, anchorVars, skip_file1, run, log>>

\* line 91: the while test fails, the call returns.
OuterExit ==
    /\ pc = "outer"
    /\ i > Len(files)
    /\ pc' = "done"
    /\ UNCHANGED <<ctorVars, probeVars, listing, dirVars, files, i, j, anchorVars, skip_file1, err, run, log>>

\* Mutant: the continue of line 95 without the i += 1 of line 94.
OuterSkipNone_NoAdvance ==
    /\ pc = "outer"
    /\ i <= Len(files)
    /\ files[i] = None
    /\ file1' = files[i]
    /\ UNCHANGED <<ctorVars, probeVars, listing, dirVars, files, i, j, file1_size, file1_token_set,
                   skip_file1, pc, err, run, log>>

\* lines 92-95: an emptied slot is stepped over.
OuterSkipNone ==
    /\ pc = "outer"
    /\ i <= Len(files)
    /\ files[i] = None
    /\ file1' = files[i]
    /\ i' = i + 1
    /\ UNCHANGED <<ctorVars, probeVars, listing, dirVars, files, j, file1_size, file1_token_set,
                   skip_file1, pc, err, run, log>>

\* Mutant: the anchor archive is moved to the Duplicated folder.
OuterArchive_ToDuplicated(ok) ==
    /\ pc = "outer"
    /\ i <= Len(files)
    /\ files[i] # None
    /\ IsZip(files[i].name)
    /\ file1' = files[i]
    /\ file1_size' = files[i].size
    /\ log' = log \o <<GetSize(files[i]), MoveZip(files[i], ok)>>
    /\ IF ok
       THEN /\ Moved(files[i].name, "dup")
            /\ files' = [files EXCEPT ![i] = None]
            /\ i' = i + 1
            /\ UNCHANGED <<pc, err>>
       ELSE /\ Raise("FileManagerError")
            /\ UNCHANGED <<dirVars, files, i>>
    /\ UNCHANGED <<ctorVars, probeVars, listing, j, file1_token_set, skip_file1, run>>

\* lines 92-103: the anchor is an archive; it goes to Zip.
OuterArchive(ok) ==
    /\ pc = "outer"
    /\ i <= Len(files)
    /\ files[i] # None
    /\ IsZip(files[i].name)
    /\ file1' = files[i]
    /\ file1_size' = files[i].size
    /\ log' = log \o <<GetSize(files[i]), MoveZip(files[i], ok)>>
    /\ IF ok
       THEN /\ Moved(files[i].name, "zip")
            /\ files' = [files EXCEPT ![i] = None]
            /\ i' = i + 1
            /\ UNCHANGED <<pc, err>>
       ELSE /\ Raise("FileManagerError")
            /\ UNCHANGED <<dirVars, files, i>>
    /\ UNCHANGED <<ctorVars, probeVars, listing, j, file1_token_set, skip_file1, run>>

\* lines 92-111: the anchor is read and tokenised, the inner scan starts.
OuterReadAnchor ==
    /\ pc = "outer"
    /\ i <= Len(files)
    /\ files[i] # None
    /\ ~IsZip(files[i].name)
    /\ file1' = files[i]
    /\ file1_size' = files[i].size
    /\ file1_token_set' = get_token_set(files[i].content)
    /\ skip_file1' = FALSE
    /\ j' = i + 1
    /\ pc' = "inner"
    /\ log' = log \o <<GetSize(files[i]), ReadFile1(files[i])>>
    /\ UNCHANGED <<ctorVars, probeVars, listing, dirVars, files, i, err, run>>

\* lines 176-179: after the for loop, i += 1 on either branch.
AfterInner ==
    /\ pc = "after"
    /\ i' = i + 1
    /\ pc' = "outer"
    /\ UNCHANGED <<ctorVars, probeVars, listing, dirVars, files, j, anchorVars, skip_file1, err, run, log>>

\* --------------------------------------------------------- the inner scan

\* The for loop of line 111 is at slot j, which holds a file.
AtFile2 ==
    /\ pc = "inner"
    /\ j <= Len(files)
    /\ files[j] # None

\* ... which is not an archive, so that line 124 compares the names.
AtPlainFile2 ==
    /\ AtFile2
    /\ ~IsZip(files[j].name)

\* compare_filenames over the names of the file universe, evaluated once:
\* the row of name1 over the names in names2, and the rows of names1.
RECURSIVE TabulateRow(_, _)
TabulateRow(name1, names2) ==
    LET name2 == CHOOSE n \in names2 : TRUE
        cell == <<name1, name2>> :> compare_filenames(name1, name2)
    IN  IF names2 = {name2} THEN cell
        ELSE cell @@ TabulateRow(name1, names2 \ {name2})

RECURSIVE Tabulate(_)
Tabulate(names1) ==
    LET name1 == CHOOSE n \in names1 : TRUE
        row == TabulateRow(name1, AllNames)
    IN  IF names1 = {name1} THEN row ELSE row @@ Tabulate(names1 \ {name1})

FilenameSimilarity == Tabulate(AllNames)

\* filename_similarity of line 124 for the pair at hand.
filename_similarity == FilenameSimilarity[<<file1.name, files[j].name>>]

\* Lines 132-142 are reached: the names are neither close nor far.
AtSizeCheck ==
    /\ AtPlainFile2
    /\ ~IsNameDuplicate(filename_similarity)
    /\ ~IsNameDissimilar(filename_similarity)

\* Lines 151-154 are reached: the sizes are comparable.
AtContentCheck ==
    /\ AtSizeCheck
    /\ ~SizeDivisionRaises(file1_size, files[j].size)
    /\ ~SizesDiffer(file1_size, files[j].size)

file2_token_set == get_token_set(files[j].content)
similarity == compare_token_sets(file1_token_set, file2_token_set)

\* Line 155 is passed: the score exists.
AtVerdict ==
    /\ AtContentCheck
    /\ ~TokenDivisionRaises(file1_token_set, file2_token_set)

\* The calls of lines 115-124 and of lines 152-154 for the pair at hand.
NameCalls == <<GetSize(files[j]), CmpNames(file1, files[j])>>
ContentCalls == NameCalls \o <<ReadFile2(files[j]), CmpTokens(file1, files[j])>>

\* The four assignments and the break shared by lines 134-139, 144-149 and
\* 159-164: file2 becomes file1, i = j.
Promote(calls) ==
    /\ file1' = files[j]
    /\ file1_size' = files[j].size
    /\ file1_token_set' = get_token_set(files[j].content)
    /\ i' = j
    /\ pc' = "after"
    /\ log' = log \o calls \o <<ReadFile1(files[j])>>
    /\ UNCHANGED <<ctorVars, probeVars, listing, dirVars, files, j, skip_file1, err, run>>

\* Mutant: a failed move of file2 is passed over and the scan goes on.
MoveFile2_Continue(dest, ok, calls) ==
    /\ log' = log \o calls
    /\ IF ok
       THEN /\ Moved(files[j].name, dest)
            /\ files' = [files EXCEPT ![j] = None]
       ELSE UNCHANGED <<dirVars, files>>
    /\ j' = j + 1
    /\ UNCHANGED <<ctorVars, probeVars, listing, i, anchorVars, skip_file1, pc, err, run>>

\* move_file(file2.path, dest); files[j] = None; continue - or the raise.
MoveFile2(dest, ok, calls) ==
    /\ log' = log \o calls
    /\ IF ok
       THEN /\ Moved(files[j].name, dest)
            /\ files' = [files EXCEPT ![j] = None]
            /\ j' = j + 1
            /\ UNCHANGED <<pc, err>>
       ELSE /\ Raise("FileManagerError")
            /\ UNCHANGED <<dirVars, files, j>>
    /\ UNCHANGED <<ctorVars, probeVars, listing, i, anchorVars, skip_file1, run>>

\* line 111: the range is exhausted.
InnerExhausted ==
    /\ pc = "inner"
    /\ j > Len(files)
    /\ pc' = "after"
    /\ UNCHANGED <<ctorVars, probeVars, listing, dirVars, files, i, j, anchorVars, skip_file1, err, run, log>>

\* lines 112-114
InnerSkipNone ==
    /\ pc = "inner"
    /\ j <= Len(files)
    /\ files[j] = None
    /\ j' = j + 1
    /\ UNCHANGED <<ctorVars, probeVars, listing, dirVars, files, i, anchorVars, skip_file1, pc, err, run, log>>

\* Mutant: an archive met by the inner scan is stepped over, not moved.
InnerArchive_NoMove(ok) ==
    /\ AtFile2
    /\ IsZip(files[j].name)
    /\ ok
    /\ j' = j + 1
    /\ log' = log \o <<GetSize(files[j])>>
    /\ UNCHANGED <<ctorVars, probeVars, listing, dirVars, files, i, anchorVars, skip_file1, pc, err, run>>

\* lines 115-121: file2 is an archive.
InnerArchive(ok) ==
    /\ AtFile2
    /\ IsZip(files[j].name)
    /\ MoveFile2("zip", ok, <<GetSize(files[j]), MoveZip(files[j], ok)>>)

\* Mutant: after the move the anchor's size is taken from file2 (the
\* file1_size = file2_size of the promotes, misplaced).
InnerNameDuplicate_TakesSize(ok) ==
    /\ AtPlainFile2
    /\ IsNameDuplicate(filename_similarity)
    /\ log' = log \o NameCalls \o <<MoveDup(files[j], ok)>>
    /\ IF ok
       THEN /\ Moved(files[j].name, "dup")
            /\ files' = [files EXCEPT ![j] = None]
            /\ file1_size' = files[j].size
            /\ j' = j + 1
            /\ UNCHANGED <<pc, err>>
       ELSE /\ Raise("FileManagerError")
            /\ UNCHANGED <<dirVars, files, j, file1_size>>
    /\ UNCHANGED <<ctorVars, probeVars, listing, i, file1, file1_token_set,
                   skip_file1, run>>

\* lines 127-130: the names are close; file2 goes to Duplicated.
InnerNameDuplicate(ok) ==
    /\ AtPlainFile2
    /\ IsNameDuplicate(filename_similarity)
    /\ MoveFile2("dup", ok, NameCalls \o <<MoveDup(files[j], ok)>>)

\* lines 132-139: the names are far apart.
InnerPromoteByName ==
    /\ AtPlainFile2
    /\ ~IsNameDuplicate(filename_similarity)
    /\ IsNameDissimilar(filename_similarity)
    /\ Promote(NameCalls)

\* line 142 divides by max(0, 0).
InnerSizeDivisionError ==
    /\ AtSizeCheck
    /\ SizeDivisionRaises(file1_size, files[j].size)
    /\ Raise("ZeroDivisionError")
    /\ log' = log \o NameCalls
    /\ UNCHANGED <<ctorVars, probeVars, listing, dirVars, files, i, j, anchorVars, skip_file1, run>>

\* lines 142-149: the sizes differ too much.
InnerPromoteBySize ==
    /\ AtSizeCheck
    /\ ~SizeDivisionRaises(file1_size, files[j].size)
    /\ SizesDiffer(file1_size, files[j].size)
    /\ Promote(NameCalls)

\* line 81 divides by an empty union (called from line 154).
InnerTokenDivisionError ==
    /\ AtContentCheck
    /\ TokenDivisionRaises(file1_token_set, file2_token_set)
    /\ Raise("ZeroDivisionError")
    /\ log' = log \o ContentCalls
    /\ UNCHANGED <<ctorVars, probeVars, listing, dirVars, files, i, j, anchorVars, skip_file1, run>>

\* lines 157-164: the contents are far apart.
InnerPromoteByContent ==
    /\ AtVerdict
    /\ IsLowSimilarity(similarity)
    /\ Promote(ContentCalls)

\* Mutant: the break of line 171 is missing, the scan goes on with the
\* relocated anchor.
InnerDuplicateAnchor_NoBreak(ok) ==
    /\ AtVerdict
    /\ ~IsLowSimilarity(similarity)
    /\ IsDuplicate(similarity)
    /\ AnchorIsSmaller(file1_size, files[j].size)
    /\ log' = log \o ContentCalls \o <<MoveDup(file1, ok)>>
    /\ IF ok
       THEN /\ Moved(file1.name, "dup")
            /\ files' = [files EXCEPT ![i] = None]
            /\ skip_file1' = TRUE
            /\ j' = j + 1
            /\ UNCHANGED <<pc, err>>
       ELSE /\ Raise("FileManagerError")
            /\ UNCHANGED <<dirVars, files, skip_file1, j>>
    /\ UNCHANGED <<ctorVars, probeVars, listing, i, anchorVars, run>>

\* Mutant: with the anchor, file2 is relocated too (both copies go).
InnerDuplicateAnchor_Both(ok) ==
    /\ AtVerdict
    /\ ~IsLowSimilarity(similarity)
    /\ IsDuplicate(similarity)
    /\ AnchorIsSmaller(file1_size, files[j].size)
    /\ log' = log \o ContentCalls \o <<MoveDup(file1, ok)>>
    /\ IF ok
       THEN /\ here' = here \ {file1.name, files[j].name}
            /\ dupArea' = dupArea \cup {file1.name, files[j].name}
            /\ files' = [files EXCEPT ![i] = None, ![j] = None]
            /\ skip_file1' = TRUE
            /\ pc' = "after"
            /\ UNCHANGED <<zipArea, err>>
       ELSE /\ Raise("FileManagerError")
            /\ UNCHANGED <<dirVars, files, skip_file1>>
    /\ UNCHANGED <<ctorVars, probeVars, listing, i, j, anchorVars, run>>

\* lines 166-171: duplicates, the anchor is the smaller one.
InnerDuplicateAnchor(ok) ==
    /\ AtVerdict
    /\ ~IsLowSimilarity(similarity)
    /\ IsDuplicate(similarity)
    /\ AnchorIsSmaller(file1_size, files[j].size)
    /\ log' = log \o ContentCalls \o <<MoveDup(file1, ok)>>
    /\ IF ok
       THEN /\ Moved(file1.name, "dup")
            /\ files' = [files EXCEPT ![i] = None]
            /\ skip_file1' = TRUE
            /\ pc' = "after"
            /\ UNCHANGED err
       ELSE /\ Raise("FileManagerError")
            /\ UNCHANGED <<dirVars, files, skip_file1>>
    /\ UNCHANGED <<ctorVars, probeVars, listing, i, j, anchorVars, run>>

\* Mutant: the scan is left after file2 was relocated, as it is after the
\* anchor was.
InnerDuplicateFile2_Break(ok) ==
    /\ AtVerdict
    /\ ~IsLowSimilarity(similarity)
    /\ IsDuplicate(similarity)
    /\ ~AnchorIsSmaller(file1_size, files[j].size)
    /\ log' = log \o ContentCalls \o <<MoveDup(files[j], ok)>>
    /\ IF ok
       THEN /\ Moved(files[j].name, "dup")
            /\ files' = [files EXCEPT ![j] = None]
            /\ pc' = "after"
            /\ UNCHANGED err
       ELSE /\ Raise("FileManagerError")
            /\ UNCHANGED <<dirVars, files>>
    /\ UNCHANGED <<ctorVars, probeVars, listing, i, j, anchorVars, skip_file1, run>>

\* lines 166-174: duplicates, file2 is not the larger one.
InnerDuplicateFile2(ok) ==
    /\ AtVerdict
    /\ ~IsLowSimilarity(similarity)
    /\ IsDuplicate(similarity)
    /\ ~AnchorIsSmaller(file1_size, files[j].size)
    /\ MoveFile2("dup", ok, ContentCalls \o <<MoveDup(files[j], ok)>>)

\* lines 157-166 both fail: next j, nothing changes.
InnerNoVerdict ==
    /\ AtVerdict
    /\ ~IsLowSimilarity(similarity)
    /\ ~IsDuplicate(similarity)
    /\ j' = j + 1
    /\ log' = log \o ContentCalls
    /\ UNCHANGED <<ctorVars, probeVars, listing, dirVars, files, i, anchorVars, skip_file1, pc, err, run>>

\* ------------------------------------------------------------ a second call

\* compare_and_move_files is called again on the same directory: scandir
\* lists what is left in place (Zip and Duplicated are directories, not
\* files).  The order is taken as the first run's; Init already covers
\* every order of every such directory.
Rerun ==
    /\ pc = "done"
    /\ run = 1
    /\ run' = 2
    /\ listing' = SelectSeq(files, LAMBDA e : e # None)
    /\ files' = << >>
    /\ i' = 1
    /\ j' = 1
    /\ file1' = None
    /\ file1_size' = 0
    /\ file1_token_set' = NoTokens
    /\ skip_file1' = FALSE
    /\ pc' = "scan"
    /\ log' = << >>
    /\ UNCHANGED <<ctorVars, probeVars, dirVars, err>>

Next ==
    \/ \E ok \in BOOLEAN : EnsureDuplicated(ok)
    \/ \E ok \in BOOLEAN : EnsureZip(ok)
    \/ ListFiles
    \/ ListFilesFails
    \/ OuterExit
    \/ OuterSkipNone
    \/ \E ok \in BOOLEAN : OuterArchive(ok)
    \/ OuterReadAnchor
    \/ AfterInner
    \/ InnerExhausted
    \/ InnerSkipNone
    \/ \E ok \in BOOLEAN : InnerArchive(ok)
    \/ \E ok \in BOOLEAN : InnerNameDuplicate(ok)
    \/ InnerPromoteByName
    \/ InnerSizeDivisionError
    \/ InnerPromoteBySize
    \/ InnerTokenDivisionError
    \/ InnerPromoteByContent
    \/ \E ok \in BOOLEAN : InnerDuplicateAnchor(ok)
    \/ \E ok \in BOOLEAN : InnerDuplicateFile2(ok)
    \/ InnerNoVerdict

\* One call of compare_and_move_files.
Spec == Init /\ [][Next]_vars

\* The call, and a second call once the first has returned.
NextTwice == Next \/ Rerun
SpecTwice == Init /\ [][NextTwice]_vars

\* The pass is one sequential control flow: a step that can be taken is taken.
LiveSpec == Spec /\ WF_vars(Next)

\* One call over a directory of the files that probe the cutoffs.
BandSpec == BandInit /\ [][Next]_vars

\* ------------------------------------------ compare_token_sets on its own

\* The Counters over the token alphabet with counts up to MaxCount; a token
\* that does not occur has count 0, and the empty Counter is NoTokens.
TokenSets == [Tokens -> 0..MaxCount]

\* A constructed manager, an empty directory, and any two Counters as the
\* arguments of a call of compare_token_sets that is about to be made.
TokenInit ==
    /\ InitPass({<< >>})
    /\ ensured = Folders
    /\ pc = "compare_token_sets"
    /\ set1 \in TokenSets
    /\ set2 \in TokenSets
    /\ result = Unset

\* lines 79-81: the call returns common_tokens / total_tokens, or the
\* division raises ZeroDivisionError.
CallCompareTokenSets ==
    /\ pc = "compare_token_sets"
    /\ result.state = "unset"
    /\ result' = IF TokenDivisionRaises(set1, set2)
                 THEN [state |-> "ZeroDivisionError", value |-> <<0, 0>>]
                 ELSE [state |-> "returned", value |-> compare_token_sets(set1, set2)]
    /\ UNCHANGED <<passVars, ctorVars, pc, err, set1, set2>>

TokenNext == CallCompareTokenSets

TokenSpec == TokenInit /\ [][TokenNext]_vars

TypeOK ==
    /\ pc \in {"makedirs_dup", "makedirs_zip", "scan", "outer", "inner",
              "after", "done", "error", "compare_token_sets"}
    /\ set1 \in TokenSets
    /\ set2 \in TokenSets
    /\ result.state \in {"unset", "returned", "ZeroDivisionError"}
    /\ ensured \subseteq Folders
    /\ err \in {"none", "FileManagerError", "ZeroDivisionError"}
    /\ run \in {1, 2}
    /\ i \in 1..(MaxFiles + 1)
    /\ j \in 1..(MaxFiles + 1)

\* ------------------------------------------------ vocabulary of the claims

\* A fraction r against the decimal num/den.
Above(r, num, den) == r[1] * den > num * r[2]
AtLeast(r, num, den) == r[1] * den >= num * r[2]
Below(r, num, den) == r[1] * den < num * r[2]
AtMost(r, num, den) == r[1] * den <= num * r[2]

\* The entries of a working set that are files, and the listed archives.
IsPlain(e) == e # None /\ ~IsZip(e.name)
ListedZips == { n \in NamesOf(listing) : IsZip(n) }

\* Filename similarity and token-overlap score of two listed entries.
NameRatio(e1, e2) == FilenameSimilarity[<<e1.name, e2.name>>]
HasScore(e1, e2) ==
    ~TokenDivisionRaises(get_token_set(e1.content), get_token_set(e2.content))
Score(e1, e2) ==
    compare_token_sets(get_token_set(e1.content), get_token_set(e2.content))
\* |size1 - size2| / max(size1, size2) > 0.5, for sizes not both zero.
GapExceeds(e1, e2) ==
    /\ Max(e1.size, e2.size) > 0
    /\ 10 * (Max(e1.size, e2.size) - Min(e1.size, e2.size)) > 5 * Max(e1.size, e2.size)

\* The calls a step adds to the log, and whether it is a step inside a run.
StepCalls == SubSeq(log', Len(log) + 1, Len(log'))
InRunStep == run' = run /\ pc \notin {"scan", "done", "error"}
OpsOf(calls) == { calls[k].op : k \in 1..Len(calls) }
LogOps == OpsOf(log)

\* ----------------------------------------------------------------------- C1

\* C1: when a run has completed, every listed file whose name ends in .zip
\* is in the Zip area, none is left in place or in Duplicated; and a second
\* run over the resulting directory makes no archive move.
C1_ArchivesRouted ==
    /\ (pc = "done" /\ run = 1) =>
          /\ ListedZips \subseteq zipArea
          /\ ListedZips \cap (here \cup dupArea) = {}
    /\ run = 2 =>
          /\ "move_zip" \notin LogOps
          /\ \A n \in here \cup dupArea : ~IsZip(n)

\* Two archives were routed by the first run and the second run is over.
C1_Witness ==
    /\ pc = "done"
    /\ run = 2
    /\ zipArea = {"a.zip", "b.zip"}
    /\ here # {}

\* ----------------------------------------------------------------------- C2

\* The listing is two plain files with a token-overlap score above 0.85.
TwoDuplicates ==
    /\ Len(listing) = 2
    /\ IsPlain(listing[1])
    /\ IsPlain(listing[2])
    /\ HasScore(listing[1], listing[2])
    /\ Above(Score(listing[1], listing[2]), 85, 100)

\* Of the two, exactly one is left in place, the other is in Duplicated; the
\* one left is the larger, and the first one on equal sizes.
LargerSurvives ==
    LET A == listing[1]
        B == listing[2]
        loser == IF A.size < B.size THEN A ELSE B
    IN  /\ here = {A.name, B.name} \ {loser.name}
        /\ dupArea = {loser.name}

\* C2 as stated: for every filename similarity and every pair of sizes.
C2_Original ==
    (pc = "done" /\ run = 1 /\ TwoDuplicates) => LargerSurvives

\* C2 amended: the larger survives when the filename similarity lies strictly
\* between 0.3 and 0.7 and the size gap is at most 0.5.  With a filename
\* similarity >= 0.7 the second file is relocated whatever the sizes; with
\* one <= 0.3, or a size gap above 0.5, both files stay.
C2_Amended ==
    (pc = "done" /\ run = 1 /\ TwoDuplicates) =>
        LET A == listing[1]
            B == listing[2]
            r == NameRatio(A, B)
        IN  /\ (Above(r, 3, 10) /\ Below(r, 7, 10) /\ ~GapExceeds(A, B))
                  => LargerSurvives
            /\ AtLeast(r, 7, 10)
                  => here = {A.name} /\ dupArea = {B.name}
            /\ (AtMost(r, 3, 10) \/ (Below(r, 7, 10) /\ GapExceeds(A, B)))
                  => here = {A.name, B.name} /\ dupArea = {}

\* The first file was the smaller duplicate and went to Duplicated.
C2_Witness ==
    /\ pc = "done"
    /\ run = 1
    /\ TwoDuplicates
    /\ listing[1].size < listing[2].size
    /\ dupArea = {listing[1].name}
    /\ here = {listing[2].name}

\* ----------------------------------------------------------------------- C3

\* C3: when the inner scan is at a plain file whose filename similarity to
\* the anchor is >= 0.7, the step reads no content and compares no token
\* sets; it calls move_file(file2, Duplicated) and, the move done, slot j is
\* None and the file is in Duplicated (a failed move ends the run, C7).
C3_NameShortCircuit ==
    [][ ( /\ pc = "inner"
          /\ j <= Len(files)
          /\ IsPlain(files[j])
          /\ AtLeast(NameRatio(file1, files[j]), 7, 10) )
        => /\ OpsOf(StepCalls) = {"getsize", "compare_filenames", "move_dup"}
           /\ StepCalls[Len(StepCalls)].f = files[j].name
           /\ \/ /\ StepCalls[Len(StepCalls)].ok
                 /\ files'[j] = None
                 /\ files[j].name \in dupArea' \ here'
                 /\ j' = j + 1
                 /\ pc' = "inner"
              \/ /\ ~StepCalls[Len(StepCalls)].ok
                 /\ pc' = "error"
                 /\ UNCHANGED <<files, dirVars>> ]_vars

\* A file went to Duplicated on its name alone: the log holds its move and no
\* content comparison, and the sizes and contents of the pair differ.
C3_Witness ==
    /\ pc = "inner"
    /\ Len(log) >= 2
    /\ log[Len(log)].op = "move_dup"
    /\ log[Len(log)].ok
    /\ log[Len(log) - 1].op = "compare_filenames"
    /\ log[Len(log)].f = log[Len(log) - 1].g
    /\ "compare_token_sets" \notin LogOps
    /\ \E k \in 1..Len(listing) :
          /\ listing[k].name = log[Len(log)].f
          /\ listing[k].size # file1_size
          /\ get_token_set(listing[k].content) # file1_token_set

\* ----------------------------------------------------------------------- C4

\* C4: when the inner scan is at a plain file whose relative size gap to the
\* anchor exceeds 0.5, the step does not read the file as file2 (line 152)
\* and compares no token sets, whatever the contents.  (When the step
\* promotes the file, lines 136 and 146 read it as the new file1.)
\* Nor does the log of any state hold a token comparison of such a pair.
EntryOf(n) == listing[CHOOSE k \in 1..Len(listing) : listing[k].name = n]
C4_SizePruning ==
    /\ [][ ( /\ pc = "inner"
             /\ j <= Len(files)
             /\ IsPlain(files[j])
             /\ GapExceeds(file1, files[j]) )
           => /\ "read_file2" \notin OpsOf(StepCalls)
              /\ "compare_token_sets" \notin OpsOf(StepCalls) ]_vars
    /\ [](\A k \in 1..Len(log) :
            log[k].op = "compare_token_sets" =>
               /\ ~GapExceeds(EntryOf(log[k].f), EntryOf(log[k].g))
               /\ log[k - 1] = ReadFile2(EntryOf(log[k].g)))

\* Two files with the same tokens (a score of 1 or above 0.85), names in the
\* middle band and a size gap above 0.5: the scan was abandoned on the sizes.
C4_Witness ==
    /\ pc = "after"
    /\ i = j
    /\ \E k \in 1..(i - 1) :
          /\ IsPlain(files[k])
          /\ GapExceeds(files[k], files[i])
          /\ Above(NameRatio(files[k], files[i]), 3, 10)
          /\ Below(NameRatio(files[k], files[i]), 7, 10)
          /\ HasScore(files[k], files[i])
          /\ Above(Score(files[k], files[i]), 85, 100)
          /\ log[Len(log) - 1] = CmpNames(files[k], files[i])

\* ----------------------------------------------------------------------- C5

\* The names of the files whose slots were emptied.
Emptied == { listing[k].name : k \in { m \in 1..Len(files) : files[m] = None } }

\* C5: within a run an emptied slot stays emptied, and no later call (size,
\* read, comparison, move) names the file it held.
C5_NoRevisit ==
    [][ InRunStep =>
          /\ \A k \in 1..Len(files) : files[k] = None => files'[k] = None
          /\ \A k \in 1..Len(StepCalls) :
                /\ StepCalls[k].f \notin Emptied
                /\ StepCalls[k].g \notin Emptied ]_vars

\* A slot was emptied and the run went on to another pair afterwards.
C5_Witness ==
    /\ pc = "inner"
    /\ Emptied # {}
    /\ \E k \in 1..Len(log) :
          /\ log[k].op \in {"move_zip", "move_dup"}
          /\ log[k].f \in Emptied
          /\ \E m \in (k + 1)..Len(log) : log[m].op = "compare_token_sets"

\* ----------------------------------------------------------------------- C6

\* The scenario's files: x.txt and y.txt, 2000 bytes each, 500 tokens "a"
\* and 500 tokens "b".
ScenarioX == [name |-> "x.txt", size |-> 2000, content |-> << <<"a", 500>> >>]
ScenarioY == [name |-> "y.txt", size |-> 2000, content |-> << <<"b", 500>> >>]
ScenarioDone ==
    /\ run = 1
    /\ listing = <<ScenarioX, ScenarioY>>
    /\ pc = "done"

\* C6 as stated: the pair reaches the content comparison, y.txt is promoted
\* and neither file is relocated.
C6_Original ==
    ScenarioDone =>
        /\ here = {"x.txt", "y.txt"}
        /\ dupArea = {}
        /\ \E k \in 1..Len(log) : log[k] = CmpTokens(ScenarioX, ScenarioY)
        /\ log[Len(log)] = ReadFile1(ScenarioY)

\* C6 amended: the filename similarity of x.txt and y.txt is 0.8 >= 0.7, so
\* the run relocates y.txt to Duplicated on the names alone: y.txt is never
\* read, no token sets are compared, x.txt stays in place.
C6_Amended ==
    ScenarioDone =>
        /\ NameRatio(ScenarioX, ScenarioY) = <<8, 10>>
        /\ here = {"x.txt"}
        /\ dupArea = {"y.txt"}
        /\ zipArea = {}
        /\ files = <<ScenarioX, None>>
        /\ log = << GetSize(ScenarioX), ReadFile1(ScenarioX), GetSize(ScenarioY),
                    CmpNames(ScenarioX, ScenarioY), MoveDup(ScenarioY, TRUE) >>

\* The scenario has run to its end.
C6_Witness ==
    /\ ScenarioDone
    /\ i = 3
    /\ "y.txt" \in dupArea

\* ----------------------------------------------------------------------- C7

\* The step's last call is a move that failed.
MoveFailed ==
    /\ Len(log') > Len(log)
    /\ log'[Len(log')].op \in {"move_zip", "move_dup"}
    /\ ~log'[Len(log')].ok

\* C7: a failed move ends the run with FileManagerError in that very step,
\* the three areas and the working set are as they were before it (what was
\* moved stays moved, nothing is rolled back), and from then on no call is
\* made and nothing changes.
C7_MoveFailureIsFatal ==
    [][ /\ MoveFailed =>
             /\ pc' = "error"
             /\ err' = "FileManagerError"
             /\ UNCHANGED <<dirVars, files>>
        /\ pc = "error" => UNCHANGED <<dirVars, files, log, pc, err>> ]_vars

\* The run was aborted by the failed move of an archive after it had
\* relocated a duplicate, which is still in Duplicated.
C7_Witness ==
    /\ pc = "error"
    /\ err = "FileManagerError"
    /\ Len(log) > 0
    /\ log[Len(log)].op = "move_zip"
    /\ ~log[Len(log)].ok
    /\ log[Len(log)].f \in here
    /\ dupArea # {}
    /\ \E k \in 1..Len(log) : log[k].op = "move_dup" /\ log[k].ok

\* ----------------------------------------------------------------------- C8

\* C8: whatever ends compare_and_move_files abnormally is a FileManagerError.
C8_SingleErrorKind ==
    pc = "error" => err = "FileManagerError"

\* ----------------------------------------------------------------------- C9

\* C9: every call ends, done or aborted, and stays ended; within a run i
\* never decreases, and it is strictly larger each time the while test of
\* line 91 is reached again.
C9_Terminates ==
    /\ <>[](pc \in {"done", "error"})
    /\ [][ InRunStep =>
             /\ i' >= i
             /\ (pc' = "outer" => i' > i) ]_vars

\* The call is over after a scan that was abandoned and an anchor taken
\* after it: i has passed the three slots.
C9_Witness ==
    /\ pc = "done"
    /\ Cardinality({ k \in 1..Len(log) : log[k].op = "read_file1" }) = 3
    /\ i = 4
    /\ Len(files) = 3

\* ---------------------------------------------------------------------- C10

\* C10: a step that adds to Duplicated adds one file of the pair (file1,
\* files[j]) the inner scan is at, both still in their slots and in place:
\* files[j] on a filename similarity >= 0.7, or either of the two on a
\* token-overlap score above 0.85.
C10_DuplicatesOnlyByVerdict ==
    [][ dupArea' # dupArea =>
          /\ pc = "inner"
          /\ j <= Len(files)
          /\ i < j
          /\ files[i] # None
          /\ files[i] = file1
          /\ IsPlain(files[i])
          /\ IsPlain(files[j])
          /\ {files[i].name, files[j].name} \subseteq here
          /\ \/ /\ dupArea' = dupArea \cup {files[j].name}
                /\ AtLeast(NameRatio(files[i], files[j]), 7, 10)
             \/ /\ \E n \in {files[i].name, files[j].name} :
                      dupArea' = dupArea \cup {n}
                /\ HasScore(files[i], files[j])
                /\ Above(Score(files[i], files[j]), 85, 100) ]_vars

\* Duplicated holds a file sent there on its name and one sent on its content.
C10_Witness ==
    /\ Cardinality(dupArea) = 2
    /\ \E k \in 2..Len(log) :
          /\ log[k].op = "move_dup"
          /\ log[k - 1].op = "compare_filenames"
    /\ \E k \in 2..Len(log) :
          /\ log[k].op = "move_dup"
          /\ log[k - 1].op = "compare_token_sets"

\* ---------------------------------------------------------------------- C11

\* C11: as long as os.makedirs has not returned for both Duplicated and Zip,
\* nothing is listed, sized, read, compared or relocated: the working set and
\* the log are empty, every file is in place and control is in the
\* constructor or the call is aborted; and a makedirs that fails ends the run
\* there and then with FileManagerError.
C11_EnsuredBeforePass ==
    /\ ensured # Folders =>
          /\ pc \in {"makedirs_dup", "makedirs_zip", "error"}
          /\ files = << >>
          /\ log = << >>
          /\ here = NamesOf(listing)
          /\ zipArea = {}
          /\ dupArea = {}
          /\ pc = "error" => err = "FileManagerError"
    /\ pc \in {"scan", "outer", "inner", "after", "done"} => ensured = Folders
    /\ (pc = "makedirs_zip" \/ "Zip" \in ensured) => "Duplicated" \in ensured

\* Duplicated was made, the makedirs of Zip failed: the run is aborted over a
\* directory of three files, none of them touched.
C11_Witness ==
    /\ pc = "error"
    /\ err = "FileManagerError"
    /\ ensured = {"Duplicated"}
    /\ Len(listing) = 3
    /\ here = NamesOf(listing)

\* ---------------------------------------------------------------------- C12

\* The inner scan was left by one of the three promotes at slot j: lines 138,
\* 148 and 163 are the only places that make i equal to j.
Promoted == pc = "after" /\ i = j

\* C12: when the scan was abandoned by a promote at slot j, the while test is
\* reached again with the anchor index equal to j, so that files[j] is the
\* next anchor; the index is advanced by 1 only when the scan was exhausted
\* or the anchor was relocated.
C12_PromotedIsNextAnchor ==
    [][ pc = "after" =>
          /\ pc' = "outer"
          /\ i' = IF Promoted THEN j ELSE i + 1 ]_vars

\* ---------------------------------------------------------------------- C13

\* The step compares the token sets of the anchor and files[j] and the score
\* is above 0.85.
ContentDuplicateStep ==
    /\ pc = "inner"
    /\ j <= Len(files)
    /\ IsPlain(files[j])
    /\ "compare_token_sets" \in OpsOf(StepCalls)
    /\ HasScore(files[i], files[j])
    /\ Above(Score(files[i], files[j]), 85, 100)

\* C13: such a step calls move_file(.., Duplicated) once, for the anchor if
\* its size is strictly smaller than that of files[j] and for files[j]
\* otherwise.  The move done, the file moved is in Duplicated and only its
\* slot changes, to None; after the anchor's move the scan is left, and the
\* while test is reached next with i + 1 and nothing else done; after the
\* move of files[j] the scan is at j + 1 with the same anchor.  (A move that
\* fails ends the run with both files in place, C7.)
C13_ContentVerdict ==
    [][ /\ ContentDuplicateStep =>
             LET last == StepCalls[Len(StepCalls)]
                 k == IF files[i].size < files[j].size THEN i ELSE j
             IN  /\ last.op = "move_dup"
                 /\ last.f = files[k].name
                 /\ Cardinality({ m \in 1..Len(StepCalls) :
                                    StepCalls[m].op = "move_dup" }) = 1
                 /\ zipArea' = zipArea
                 /\ i' = i
                 /\ IF last.ok
                    THEN /\ files' = [files EXCEPT ![k] = None]
                         /\ here' = here \ {files[k].name}
                         /\ dupArea' = dupArea \cup {files[k].name}
                         /\ files[k].name \in here
                         /\ IF k = i
                            THEN pc' = "after" /\ skip_file1' /\ j' = j
                            ELSE /\ pc' = "inner"
                                 /\ j' = j + 1
                                 /\ UNCHANGED <<anchorVars, skip_file1>>
                    ELSE /\ pc' = "error"
                         /\ UNCHANGED <<files, dirVars>>
        /\ (pc = "after" /\ skip_file1) =>
             /\ files[i] = None
             /\ pc' = "outer"
             /\ i' = i + 1
             /\ UNCHANGED <<files, dirVars, log>> ]_vars

\* Of three files the second went to Duplicated as the anchor's equal-sized
\* duplicate, then the anchor itself as the smaller duplicate of the third;
\* the while test is reached with the index after the anchor's.
C13_Witness ==
    /\ pc = "outer"
    /\ skip_file1
    /\ i = 2
    /\ Len(listing) = 3
    /\ listing[1].size = listing[2].size
    /\ listing[1].size < listing[3].size
    /\ dupArea = {listing[1].name, listing[2].name}
    /\ here = {listing[3].name}
    /\ files = <<None, None, listing[3]>>

\* ---------------------------------------------------------------------- C14

\* The step moves files[j] out of the directory: to Zip as an archive, to
\* Duplicated as a name duplicate or as a content duplicate.
RelocatesFile2 ==
    /\ pc = "inner"
    /\ j <= Len(files)
    /\ files[j] # None
    /\ files[j].name \in here
    /\ files[j].name \notin here'

\* C14: a step of the inner scan that relocates files[j] changes slot j to
\* None and no other slot, leaves the anchor index, the anchor's slot, file1,
\* its size and its token set as they were, and goes on to j + 1 in the scan.
C14_AnchorUntouched ==
    [][ RelocatesFile2 =>
          /\ files' = [files EXCEPT ![j] = None]
          /\ i' = i
          /\ files'[i] = files[i]
          /\ files[i] = file1
          /\ file1' = file1
          /\ file1_size' = file1_size
          /\ file1_size = files[i].size
          /\ file1_token_set' = file1_token_set
          /\ file1_token_set = get_token_set(files[i].content)
          /\ skip_file1' = skip_file1
          /\ j' = j + 1
          /\ pc' = "inner"
          /\ here' = here \ {files[j].name}
          /\ \/ zipArea' = zipArea \cup {files[j].name} /\ dupArea' = dupArea
             \/ dupArea' = dupArea \cup {files[j].name} /\ zipArea' = zipArea ]_vars

\* One anchor has relocated an archive and a name duplicate of another size,
\* and the scan is past them with the anchor in its slot.
C14_Witness ==
    /\ pc = "inner"
    /\ i = 1
    /\ j = 4
    /\ files[1] = file1
    /\ files[1] # None
    /\ Cardinality(zipArea) = 1
    /\ Cardinality(dupArea) = 1
    /\ \E k \in 2..3 : listing[k].name \in dupArea /\ listing[k].size # file1_size

\* ---------------------------------------------------------------------- C15

\* The step was a promote of files[j]: nothing is moved, the scan is left
\* with i = j.
PromoteStep ==
    /\ pc' = "after"
    /\ i' = j
    /\ ~skip_file1'
    /\ UNCHANGED <<files, dirVars>>
    /\ OpsOf(StepCalls) \cap {"move_zip", "move_dup"} = {}

\* The step changed nothing but j: the scan goes on with the same anchor.
ContinueStep ==
    /\ pc' = "inner"
    /\ j' = j + 1
    /\ UNCHANGED <<files, dirVars, i, anchorVars, skip_file1, err>>

\* C15: at a plain files[j], with r the filename similarity to the anchor,
\* g the relative size gap and s the token-overlap score:
\*   r >= 0.7 (0.7 included): files[j] is moved to Duplicated on the name;
\*   r <= 0.3 (0.3 included): promote, sizes and contents unread;
\*   0.3 < r < 0.7: the size check is made; g > 0.5 is a promote, g <= 0.5
\*   (0.5 included) goes on to the content comparison, where s < 0.3 is a
\*   promote, s > 0.85 a duplicate, and 0.3 <= s <= 0.85 changes nothing and
\*   goes on to j + 1 with the same anchor.
\* (The two divisions by zero, of two empty files and of two files without
\* tokens, are left aside here: see C8 and C16.)
C15_DecisionBands ==
    [][ ( /\ pc = "inner"
          /\ j <= Len(files)
          /\ IsPlain(files[j]) )
        => LET r == NameRatio(files[i], files[j])
               ops == OpsOf(StepCalls)
           IN  /\ AtLeast(r, 7, 10) =>
                     /\ ops = {"getsize", "compare_filenames", "move_dup"}
                     /\ StepCalls[Len(StepCalls)].f = files[j].name
               /\ AtMost(r, 3, 10) =>
                     /\ ops = {"getsize", "compare_filenames", "read_file1"}
                     /\ PromoteStep
               /\ ( /\ Above(r, 3, 10)
                    /\ Below(r, 7, 10)
                    /\ Max(files[i].size, files[j].size) > 0 ) =>
                     IF GapExceeds(files[i], files[j])
                     THEN /\ ops = {"getsize", "compare_filenames", "read_file1"}
                          /\ PromoteStep
                     ELSE /\ "read_file2" \in ops
                          /\ "compare_token_sets" \in ops
                          /\ HasScore(files[i], files[j]) =>
                                LET s == Score(files[i], files[j])
                                IN  /\ Below(s, 3, 10) => PromoteStep
                                    /\ Above(s, 85, 100) => "move_dup" \in ops
                                    /\ (AtLeast(s, 3, 10) /\ AtMost(s, 85, 100)) =>
                                          /\ ContinueStep
                                          /\ "read_file1" \notin ops
                                          /\ "move_dup" \notin ops ]_vars

\* report.txt (500 tokens, 2000 bytes) met rework.doc (150 tokens, 1000
\* bytes: name in the middle band, size gap exactly 0.5, score exactly 0.3)
\* and went on with the same anchor to budget.doc, whose filename similarity
\* of exactly 0.3 was a promote.
C15_Witness ==
    /\ pc = "after"
    /\ i = 3
    /\ j = 3
    /\ Len(files) = 3
    /\ files[1] = [name |-> "report.txt", size |-> 2000, content |-> << <<"a", 500>> >>]
    /\ files[2] = [name |-> "rework.doc", size |-> 1000, content |-> << <<"a", 150>> >>]
    /\ files[3].name = "budget.doc"
    /\ NameRatio(files[1], files[3]) = <<6, 20>>
    /\ Score(files[1], files[2]) = <<150, 500>>
    /\ SizeGap(files[1].size, files[2].size) = <<1000, 2000>>
    /\ \E k \in 1..Len(log) : log[k] = CmpTokens(files[1], files[2])
    /\ log[Len(log) - 1] = CmpNames(files[1], files[3])
    /\ here = NamesOf(listing)

\* ---------------------------------------------------------------------- C16

\* Sum of the per-token minima and of the per-token maxima of two Counters
\* over the alphabet {a, b}.
SumOfMinima(c1, c2) ==
    (IF c1["a"] < c2["a"] THEN c1["a"] ELSE c2["a"])
    + (IF c1["b"] < c2["b"] THEN c1["b"] ELSE c2["b"])
SumOfMaxima(c1, c2) ==
    (IF c1["a"] > c2["a"] THEN c1["a"] ELSE c2["a"])
    + (IF c1["b"] > c2["b"] THEN c1["b"] ELSE c2["b"])

\* The call returned v, the quotient of the two sums, which lies in [0, 1]
\* and is what the call with the arguments exchanged gives.
ReturnsOverlap ==
    LET v == result.value
        w == compare_token_sets(set2, set1)
    IN  /\ result.state = "returned"
        /\ v[2] > 0
        /\ v[1] * SumOfMaxima(set1, set2) = SumOfMinima(set1, set2) * v[2]
        /\ 0 <= v[1]
        /\ v[1] <= v[2]
        /\ ~TokenDivisionRaises(set2, set1)
        /\ v[1] * w[2] = w[1] * v[2]

\* C16: for every two Counters, one or both empty included, the call of
\* compare_token_sets returns the sum of the minima over the sum of the
\* maxima, a value in [0, 1] that does not depend on the argument order.
C16_OverlapScore ==
    result.state # "unset" => ReturnsOverlap

\* C16 for the arguments the division is defined on: when at least one of
\* the two Counters holds a token the call returns as C16 says; when neither
\* does, it raises ZeroDivisionError.
C16_ExceptBothEmpty ==
    result.state # "unset" =>
        IF set1 = NoTokens /\ set2 = NoTokens
        THEN result.state = "ZeroDivisionError"
        ELSE ReturnsOverlap

\* The call was made with one Counter empty and returned 0.
C16_OneEmpty ==
    /\ result.state = "returned"
    /\ set1 = NoTokens
    /\ set2 # NoTokens
    /\ result.value[1] = 0

\* ---------------------------------------------------------------------- C17

\* The listed files that are not archives.
ListedPlain == { n \in NamesOf(listing) : ~IsZip(n) }

\* C17: when the directory lists a non-archive file, in every state some
\* non-archive file is in place and, the working set once built, in a slot
\* that is not None: Duplicated never holds all of them.
C17_OneStays ==
    ListedPlain # {} =>
        /\ ListedPlain \cap here # {}
        /\ ~(ListedPlain \subseteq dupArea)
        /\ pc \in {"outer", "inner", "after", "done"} =>
              \E k \in 1..Len(files) : IsPlain(files[k]) /\ files[k].name \in here

\* Of three non-archive files two were relocated as duplicates, one by the
\* first anchor and then that anchor itself; the third is the one in place.
C17_Witness ==
    /\ pc = "done"
    /\ Cardinality(ListedPlain) = 3
    /\ Cardinality(dupArea) = 2
    /\ listing[1].name \in dupArea
    /\ \E k \in 1..Len(files) : IsPlain(files[k]) /\ here = {files[k].name}

\* ---------------------------------------------------------------------- C18

\* The names in the slots that are not None.
InSlots == { files[k].name : k \in { m \in 1..Len(files) : files[m] # None } }

\* The successful moves of file n in the log.
MovesOf(n) ==
    { k \in 1..Len(log) :
        log[k].op \in {"move_zip", "move_dup"} /\ log[k].f = n /\ log[k].ok }

\* C18: the working set once built, Zip, Duplicated and the non-None slots
\* are pairwise disjoint and together hold exactly the listed files, and the
\* non-None slots are the files in place; a file is moved at most once, and
\* exactly once if it is in Zip or Duplicated; Zip holds only names ending in
\* .zip and Duplicated none.  Before the listing every file is in place.
\* (The working set is built when control is in the loops or a call was
\* logged; a run aborted by a failed move keeps the partition.)
C18_AreasPartition ==
    /\ (pc \in {"outer", "inner", "after", "done"} \/ log # << >>) =>
          /\ InSlots \cup zipArea \cup dupArea = NamesOf(listing)
          /\ InSlots \cap zipArea = {}
          /\ InSlots \cap dupArea = {}
          /\ InSlots = here
          /\ \A k \in 1..Len(files) : files[k] # None => files[k] = listing[k]
    /\ zipArea \cap dupArea = {}
    /\ here \cap (zipArea \cup dupArea) = {}
    /\ here \cup zipArea \cup dupArea = NamesOf(listing)
    /\ \A n \in NamesOf(listing) :
          Cardinality(MovesOf(n)) = IF n \in zipArea \cup dupArea THEN 1 ELSE 0
    /\ \A n \in zipArea : IsZip(n)
    /\ \A n \in dupArea : ~IsZip(n)

\* A run has ended with one file in each of the three places.
C18_Witness ==
    /\ pc = "done"
    /\ Cardinality(zipArea) = 1
    /\ Cardinality(dupArea) = 1
    /\ Cardinality(InSlots) = 1
    /\ Len(files) = 3

====
